---- MODULE Spec2Model ----
(***************************************************************************)
(* The transform pipeline table of MONAIVizWidget and its execution cache  *)
(* TransformCtx (src/MONAIViz/MONAIViz.py).  One action per handler of the *)
(* widget; table rows are numbered from 0 as in the code, so row r of the  *)
(* code is table[r + 1].  Strings are the code's strings.                  *)
(***************************************************************************)
EXTENDS Integers, Sequences, FiniteSets, TLC

VARIABLES table, cur, btn, ctx, imagePath, scene, cursor, file, docCached,
          bundleCached, ev, steps, settings, call

vars == <<table, cur, btn, ctx, imagePath, scene, cursor, file, docCached,
          bundleCached, ev, steps, settings, call>>

(* ------------------------------ bounds -------------------------------- *)

\* rows the table may hold
MaxRows == 3
\* handler invocations in one session
MaxSteps == 5

(* --------------------------- the environment --------------------------- *)

\* transform classes offered by the transforms combo box
TransformNames ==
    {"LoadImaged", "RandCropByPosNegLabeld", "RandAffineGrid"}

\* the image path the user can pick in imagePathLineEdit ("" = none picked)
ImagePaths == {"", "spleen_2.nii.gz"}

\* the one bundle of the bundles combo box and the transforms its config lists
BundleName == "spleen_ct_segmentation"

\* samples a list-returning (batched) transform produces
BatchLen == 2

\* the application settings before the settings panel stored anything
NoSettings == [k \in {} |-> ""]

\* slicer.util.settingsValue(key, default)
settingsValue(key, default) ==
    IF key \in DOMAIN settings THEN settings[key] ELSE default

(* ------------------------------ strings -------------------------------- *)

\* the test of the last letter left out
EndsWithD_Always(t) == TRUE

\* t[-1] == "d"
EndsWithD(t) == Len(t) > 0 /\ SubSeq(t, Len(t), Len(t)) = "d"

\* sub in s
Contains(s, sub) ==
    \E i \in 1..(Len(s) - Len(sub) + 1) : SubSeq(s, i, i + Len(sub) - 1) = sub

\* names that end in d without being dictionary transforms
ExcludedNames == {"AffineGrid", "Decollated", "RandAffineGrid", "RandDeformGrid"}

\* the default argument string onAddTransform suggests for transform t
DefaultArgs(t) ==
    IF EndsWithD(t) /\ t \notin ExcludedNames
    THEN "keys=['" \o settingsValue("SlicerMONAIViz/imageKey", "image") \o "', '"
         \o settingsValue("SlicerMONAIViz/labelKey", "label") \o "']"
    ELSE ""

\* argument strings the argument dialog can hand back
ArgStrings == {"", "keys=['image', 'label']"}

BundleTransforms ==
    << [name |-> "LoadImaged", args |-> "keys=['image', 'label']"],
       [name |-> "EnsureChannelFirstd", args |-> "keys=['image', 'label']"] >>

(* --------------------------- TransformCtx ------------------------------ *)

\* self.d is None
DNone == [none |-> TRUE, ops |-> <<>>, batch |-> 0]

\* the dictionary prepare_dict builds: nothing applied yet, not a list
PrepareDict == [none |-> FALSE, ops |-> <<>>, batch |-> 0]

CtxInit ==
    [d |-> DNone, last_exp |-> "", next_idx |-> 0, next_exp |-> "",
     channel |-> FALSE, bidx |-> 0,
     original_spatial_shape |-> <<>>, original_affine |-> <<>>]

\* reset that forgets to drop the data
reset_KeepsData(c) == [CtxInit EXCEPT !.d = c.d]

reset(c) == CtxInit

valid(c) == ~(c.d.none \/ c.next_idx = 0)

valid_for_next(c, exp) == exp # "" /\ c.next_exp # "" /\ exp = c.next_exp

\* the cache after get_d(exp, d) with exp not None
\* get_d without the reset on a row that is not the expected next one
get_d_ctx_NoReset(c, exp) == c

get_d_ctx(c, exp) == IF ~valid_for_next(c, exp) THEN reset(c) ELSE c

\* the dictionary get_d(exp, d) returns with exp not None
get_d(c, exp, d) == IF ~valid(get_d_ctx(c, exp)) THEN d ELSE get_d_ctx(c, exp).d

\* a get_d(None, d) that goes on to the reset of the other branch
get_d_preview_ctx_Resets(c) == reset(c)

\* the cache after get_d(None, d): the branch returns before any assignment
get_d_preview_ctx(c) == c

\* the dictionary get_d(None, d) returns (the preview)
get_d_preview(c, d) == IF valid(c) THEN c.d ELSE d

\* set_d that stores the data but not the expression that made it
set_d_KeepsLastExp(c, d, exp) ==
    [c EXCEPT !.original_spatial_shape = IF c.original_spatial_shape = <<>> THEN <<d.ops>> ELSE @,
              !.original_affine = IF c.original_spatial_shape = <<>> THEN <<d.ops>> ELSE @,
              !.channel = IF Contains(exp, "EnsureChannelFirstd") THEN TRUE ELSE @,
              !.d = d]

\* set_d that takes the channel flag from the last expression only
set_d_ChannelOfLast(c, d, exp) ==
    [c EXCEPT
       !.original_spatial_shape = IF c.original_spatial_shape = <<>> THEN <<d.ops>> ELSE @,
       !.original_affine = IF c.original_spatial_shape = <<>> THEN <<d.ops>> ELSE @,
       !.channel = Contains(exp, "EnsureChannelFirstd"),
       !.d = d,
       !.last_exp = exp]

set_d(c, d, exp) ==
    [c EXCEPT
       !.original_spatial_shape = IF c.original_spatial_shape = <<>> THEN <<d.ops>> ELSE @,
       !.original_affine = IF c.original_spatial_shape = <<>> THEN <<d.ops>> ELSE @,
       !.channel = IF Contains(exp, "EnsureChannelFirstd") THEN TRUE ELSE @,
       !.d = d,
       !.last_exp = exp]

\* set_next that compares the row index only
set_next_IndexOnly(c, next_idx, next_exp) ==
    IF c.next_idx = next_idx
    THEN [c EXCEPT !.bidx = @ + 1]
    ELSE [c EXCEPT !.next_idx = next_idx, !.next_exp = next_exp]

set_next(c, next_idx, next_exp) ==
    IF c.next_idx = next_idx /\ c.next_exp = next_exp
    THEN [c EXCEPT !.bidx = @ + 1]
    ELSE [c EXCEPT !.next_idx = next_idx, !.next_exp = next_exp]

\* the index get_tensor reads: bidx % len(d) for a list, -1 for a dictionary
BatchIndex(c) == IF c.d.batch > 0 THEN c.bidx % c.d.batch ELSE -1

\* what get_tensor hands to the display: the element it reads and whether
\* np.squeeze(v, axis=0) dropped the leading axis
get_tensor(c) == [idx |-> BatchIndex(c), squeezed |-> c.channel]

(* ------------------------------ the table ------------------------------ *)

rowCount(t) == Len(t)

InsertAt(t, pos, r) == SubSeq(t, 1, pos) \o <<r>> \o SubSeq(t, pos + 1, Len(t))

RemoveAt(t, row) == SubSeq(t, 1, row) \o SubSeq(t, row + 2, Len(t))

get_exp(t, row) ==
    "monai.transforms." \o t[row + 1].name \o "(" \o t[row + 1].args \o ")"

\* the buttons after onSelectTransform(row, col)
onSelectTransform(t, c, row) ==
    LET selected == row >= 0 /\ rowCount(t) # 0
    IN [sel |-> selected,
        up |-> selected /\ row > 0,
        down |-> selected /\ row < rowCount(t) - 1,
        clear |-> valid(c)]

\* every status icon from row `from` on set to yellow
Yellow(t, from) == [i \in 1..Len(t) |-> IF i - 1 >= from THEN [t[i] EXCEPT !.done = FALSE] ELSE t[i]]

\* currentRow() once QTableWidget.removeRow(row) took the current row out of n
\* rows: the toolkit moves to the row above or to the row below first
CurrentAfterRemove(n, row, q) ==
    IF q = "above"
    THEN (IF row > 0 THEN row - 1 ELSE IF n > 1 THEN 0 ELSE -1)
    ELSE (IF row < n - 1 THEN row ELSE row - 1)

\* u is the widget state [table, cur, btn]; c is the cache
addTransform(u, c, pos, m, t, v, active) ==
    LET p == IF pos >= 0 THEN pos
             ELSE IF u.cur < 0 THEN rowCount(u.table) ELSE u.cur + 1
        ok == p <= rowCount(u.table)
        r == [name |-> IF m # "" THEN m \o "." \o t ELSE t, args |-> v,
              active |-> active, done |-> FALSE, boxrow |-> p]
        t2 == IF ok THEN InsertAt(u.table, p, r) ELSE u.table
    IN [table |-> t2, cur |-> IF ok THEN p ELSE u.cur,
        btn |-> onSelectTransform(t2, c, p)]

onRemoveTransform(u, c, q) ==
    IF u.cur < 0 THEN u
    ELSE LET t2 == RemoveAt(u.table, u.cur)
         IN [table |-> t2, cur |-> CurrentAfterRemove(rowCount(u.table), u.cur, q),
             btn |-> onSelectTransform(t2, c, -1)]

\* a move-up that re-inserts the row with its checkbox checked
onMoveUpTransform_Checked(u, c, q) ==
    IF u.cur < 0 THEN u
    ELSE LET r == u.table[u.cur + 1]
         IN addTransform(onRemoveTransform(u, c, q), c, u.cur - 1, "", r.name, r.args, TRUE)

onMoveUpTransform(u, c, q) ==
    IF u.cur < 0 THEN u
    ELSE LET r == u.table[u.cur + 1]
         IN addTransform(onRemoveTransform(u, c, q), c, u.cur - 1, "", r.name, r.args, r.active)

onMoveDownTransform(u, c, q) ==
    IF u.cur < 0 THEN u
    ELSE LET r == u.table[u.cur + 1]
         IN addTransform(onRemoveTransform(u, c, q), c, u.cur + 1, "", r.name, r.args, r.active)

(* ------------------------------ the run -------------------------------- *)

\* transforms whose call returns a list of samples instead of one dictionary
ReturnsList(exp) == Contains(exp, "RandCropByPosNegLabeld")

\* t(d), or [t(dx) for dx in d] when d is a list
Apply(exp, d) ==
    [none |-> FALSE, ops |-> Append(d.ops, exp),
     batch |-> IF d.batch > 0 THEN d.batch
               ELSE IF ReturnsList(exp) THEN BatchLen ELSE 0]

NoFail == [row |-> -1, kind |-> "none"]

\* where the environment makes the run raise: evaluating or applying the
\* transform of a row, reading the affine of its result in set_d, or showing
\* the volume
Fails(t) ==
    {NoFail} \cup
    [row : 0..(rowCount(t) - 1), kind : {"apply", "affine"}] \cup
    {[row |-> -1, kind |-> "prepare"], [row |-> -1, kind |-> "display"]}

\* a loop that takes every checkbox as checked
isChecked_Always(t, row) == TRUE

\* transformTable.cellWidget(row, 0).findChild("QCheckBox").isChecked()
isChecked(t, row) == t[row + 1].active

\* the loop of onRunTransform over rows row..last; st is
\* [ctx, d, table, applied, raised]
RECURSIVE RunRows(_, _, _, _)
RunRows(st, row, last, fail) ==
    IF row > last \/ st.raised THEN st
    ELSE IF isChecked(st.table, row)
    THEN LET exp == get_exp(st.table, row)
             d2 == Apply(exp, st.d)
         IN IF fail = [row |-> row, kind |-> "apply"]
            THEN [st EXCEPT !.raised = TRUE]
            ELSE IF fail = [row |-> row, kind |-> "affine"]
                    /\ st.ctx.original_spatial_shape = <<>>
            THEN [st EXCEPT !.raised = TRUE,
                            !.ctx.original_spatial_shape = <<d2.ops>>]
            ELSE RunRows([ctx |-> set_d(st.ctx, d2, exp), d |-> d2,
                          table |-> [st.table EXCEPT ![row + 1].done = TRUE],
                          applied |-> Append(st.applied, row), raised |-> FALSE],
                         row + 1, last, fail)
    ELSE RunRows([st EXCEPT !.table[row + 1].done = FALSE], row + 1, last, fail)

\* onRunTransform from get_d to the end of its loop, on table t with cache
\* c and current row `row`: the loop is skipped when the expression of the
\* row is the one applied last
RunLoop(t, c, row, fail) ==
    LET current_exp == get_exp(t, row)
        c1 == get_d_ctx(c, current_exp)
        st0 == [ctx |-> c1, d |-> get_d(c, current_exp, PrepareDict),
                table |-> t, applied |-> <<>>, raised |-> FALSE]
    IN IF c1.last_exp # current_exp
       THEN RunRows(st0, c1.next_idx, row, fail)
       ELSE st0

(* ------------------------------ the state ------------------------------ *)

\* slicer.mrmlScene after Clear(0)
SceneEmpty == [shown |-> FALSE, ops |-> <<>>, idx |-> -1, squeezed |-> FALSE]

\* the record of the last handler call: which handler, on which row, how it
\* ended ("ok", "raised", "msg" for the error display, "noop" for an early
\* return) and where it raised; for a run, the rows whose transform it
\* applied, the frontier get_d left it to start from, whether get_d reset the
\* cache and whether that reset dropped cached data; for an edit or a clear,
\* the frontier before it and whether it cleared the cache; ran is the row of
\* the last successful run while only cell clicks and previews followed it;
\* for an import, whether it asked for confirmation and whether it called
\* MonaiUtils.download_bundle
Ev(op, row, outcome) ==
    [op |-> op, row |-> row, outcome |-> outcome, at |-> "", applied |-> <<>>,
     from |-> -1, wasReset |-> FALSE, stale |-> FALSE, ran |-> -1,
     prompt |-> FALSE, download |-> FALSE]

U == [table |-> table, cur |-> cur, btn |-> btn]

SetU(u) == table' = u.table /\ cur' = u.cur /\ btn' = u.btn

\* no call of a library function is on record
CallNone == [fn |-> "none"]

\* one handler call of the widget; the settings stay as the panel left them
Step == steps < MaxSteps /\ steps' = steps + 1 /\ UNCHANGED <<settings, call>>

Init ==
    /\ table = <<>>
    /\ cur = -1
    /\ btn = [sel |-> FALSE, up |-> FALSE, down |-> FALSE, clear |-> FALSE]
    /\ ctx = CtxInit
    /\ imagePath \in ImagePaths
    /\ scene = SceneEmpty
    /\ cursor = 0
    /\ file = <<>>
    /\ docCached \in BOOLEAN
    /\ bundleCached = FALSE
    /\ ev = Ev("init", -1, "ok")
    /\ steps = 0
    /\ settings = NoSettings
    /\ call = CallNone

(* ------------------------------ handlers ------------------------------- *)

\* the user picks a path in imagePathLineEdit, or empties it
SetImagePath(p) ==
    /\ Step
    /\ p # imagePath
    /\ imagePath' = p
    /\ ev' = Ev("path", -1, "ok")
    /\ UNCHANGED <<table, cur, btn, ctx, scene, cursor, file, docCached, bundleCached>>

\* a click on a cell of row `row`: the row becomes current, cellClicked fires
SelectCell(row) ==
    /\ Step
    /\ row \in 0..(rowCount(table) - 1)
    /\ cur' = row
    /\ btn' = onSelectTransform(table, ctx, row)
    /\ ev' = [Ev("select", row, "ok") EXCEPT !.ran = ev.ran]
    /\ UNCHANGED <<table, ctx, imagePath, scene, cursor, file, docCached, bundleCached>>

onAddTransform(t) ==
    /\ Step
    /\ rowCount(table) < MaxRows
    /\ SetU(addTransform(U, ctx, -1, "", t, DefaultArgs(t), TRUE))
    /\ ev' = Ev("add", cur', "ok")
    /\ UNCHANGED <<ctx, imagePath, scene, cursor, file, docCached, bundleCached>>

RemoveButton(q) ==
    /\ Step
    /\ btn.sel
    /\ SetU(onRemoveTransform(U, ctx, q))
    /\ ev' = Ev("remove", cur, IF cur < 0 THEN "noop" ELSE "ok")
    /\ UNCHANGED <<ctx, imagePath, scene, cursor, file, docCached, bundleCached>>

MoveUpButton(q) ==
    /\ Step
    /\ btn.up
    /\ SetU(onMoveUpTransform(U, ctx, q))
    /\ ev' = Ev("up", cur, IF cur < 0 THEN "noop" ELSE "ok")
    /\ UNCHANGED <<ctx, imagePath, scene, cursor, file, docCached, bundleCached>>

MoveDownButton(q) ==
    /\ Step
    /\ btn.down
    /\ SetU(onMoveDownTransform(U, ctx, q))
    /\ ev' = Ev("down", cur, IF cur < 0 THEN "noop" ELSE "ok")
    /\ UNCHANGED <<ctx, imagePath, scene, cursor, file, docCached, bundleCached>>

\* [table, btn, ctx] after onClearTransform
onClearTransform(t, b, c) ==
    [table |-> Yellow(t, 0), ctx |-> reset(c),
     btn |-> [b EXCEPT !.clear = valid(reset(c))]]

ClearButton ==
    /\ Step
    /\ btn.clear
    /\ LET r == onClearTransform(table, btn, ctx)
       IN table' = r.table /\ ctx' = r.ctx /\ btn' = r.btn
    /\ ev' = [Ev("clear", -1, "ok") EXCEPT !.from = ctx.next_idx, !.wasReset = TRUE]
    /\ UNCHANGED <<cur, imagePath, scene, cursor, file, docCached, bundleCached>>

\* what the argument dialog leaves in dlg.updatedArgs, as the expression
\* args_to_expression makes of it; upd is FALSE when the dialog was closed
\* without pressing update
DialogResults == {[upd |-> FALSE, args |-> ""]} \cup [upd : {TRUE}, args : ArgStrings]

\* the rule of onEditTransform for dropping the cache when row's text changes
\* the edit rule without its last-row part
EditClears_BelowFrontierOnly(t, c, row) == row < c.next_idx

\* the edit rule without its row < next_idx part
EditClears_LastRowOnly(t, c, row) == row = rowCount(t) - 1

EditClears(t, c, row) == row < c.next_idx \/ row = rowCount(t) - 1

\* an edit that takes every pressed update as a change
EditUpdates_AnyUpdate(dlg, exp) == dlg.upd

\* dlg.updatedArgs is not None and the new expression differs from the old
EditUpdates(dlg, exp) == dlg.upd /\ exp # dlg.args

onEditTransform(dlg) ==
    /\ Step
    /\ btn.sel
    /\ IF cur < 0
       THEN /\ ev' = Ev("edit", cur, "noop")
            /\ UNCHANGED <<table, btn, ctx>>
       ELSE IF ~docCached
       THEN \* open(doc_html, "wb", encoding="utf-8") raises ValueError
            /\ ev' = Ev("edit", cur, "raised")
            /\ UNCHANGED <<table, btn, ctx>>
       ELSE IF EditUpdates(dlg, table[cur + 1].args)
       THEN LET r == IF EditClears(table, ctx, cur)
                     THEN onClearTransform(table, btn, ctx)
                     ELSE [table |-> table, ctx |-> ctx, btn |-> btn]
            IN /\ table' = [r.table EXCEPT ![cur + 1].args = dlg.args]
               /\ ctx' = r.ctx
               /\ btn' = r.btn
               /\ ev' = [Ev("edit", cur, "ok") EXCEPT
                           !.from = ctx.next_idx,
                           !.wasReset = EditClears(table, ctx, cur)]
       ELSE /\ ev' = Ev("edit", cur, "ok")
            /\ UNCHANGED <<table, btn, ctx>>
    /\ UNCHANGED <<cur, imagePath, scene, cursor, file, docCached, bundleCached>>

\* a click on the active checkbox of row i: the box toggles, then its
\* clicked(bool) slot runs onBoxClicked(checked, box.row)
onBoxClicked(i) ==
    /\ Step
    /\ i \in 0..(rowCount(table) - 1)
    /\ LET b == table[i + 1].boxrow
           t2 == [table EXCEPT ![i + 1].active = ~@]
       IN /\ table' = t2
          /\ IF b < rowCount(t2)
             THEN /\ ctx' = reset(set_next(ctx, b, get_exp(t2, b)))
                  /\ ev' = Ev("box", i, "ok")
             ELSE \* table.item(row, 2) is None
                  /\ ctx' = ctx
                  /\ ev' = Ev("box", i, "raised")
    /\ UNCHANGED <<cur, btn, imagePath, scene, cursor, file, docCached, bundleCached>>

onShowDictionary ==
    /\ Step
    /\ ctx' = get_d_preview_ctx(ctx)
    /\ ev' = [Ev("preview", -1, "ok") EXCEPT !.ran = ev.ran]
    /\ UNCHANGED <<table, cur, btn, imagePath, scene, cursor, file, docCached, bundleCached>>

\* qt.QApplication's stack of override cursors, as its depth
setOverrideCursor(n) == n + 1

\* a restore that leaves the stack as it is
restoreOverrideCursor_Keeps(n) == n

restoreOverrideCursor(n) == IF n > 0 THEN n - 1 ELSE 0

\* not self.ui.imagePathLineEdit.currentPath
\* a run that never looks at the image path
NoImage_Never(path) == FALSE

NoImage(path) == path = ""

onRunTransform(fail) ==
    /\ Step
    /\ btn.sel
    /\ UNCHANGED <<imagePath, file, docCached, bundleCached>>
    \* both early returns come before the try; inside it the cursor is set
    \* and the finally clause restores it on every way out
    /\ cursor' = IF NoImage(imagePath) \/ cur < 0 THEN cursor
                 ELSE restoreOverrideCursor(setOverrideCursor(cursor))
    /\ IF NoImage(imagePath)
       THEN /\ ev' = Ev("run", cur, "msg")
            /\ UNCHANGED <<table, cur, btn, ctx, scene>>
       ELSE IF cur < 0
       THEN /\ ev' = Ev("run", cur, "noop")
            /\ UNCHANGED <<table, cur, btn, ctx, scene>>
       ELSE IF fail.kind = "prepare"
       THEN \* json.loads of the additional-keys text raises in prepare_dict
            /\ scene' = SceneEmpty
            /\ ev' = [Ev("run", cur, "raised") EXCEPT !.at = "prepare"]
            /\ UNCHANGED <<table, cur, btn, ctx>>
       ELSE
         LET current_exp == get_exp(table, cur)
             c1 == get_d_ctx(ctx, current_exp)
             st == RunLoop(table, ctx, cur, fail)
             more == cur + 1 < rowCount(table)
             next_idx == IF more THEN cur + 1 ELSE cur
             next_exp == get_exp(table, next_idx)
             t3 == IF more THEN Yellow(st.table, next_idx) ELSE st.table
             c3 == set_next(st.ctx, next_idx, next_exp)
             e == [Ev("run", cur, "raised") EXCEPT
                     !.applied = st.applied, !.from = c1.next_idx,
                     !.wasReset = ~valid_for_next(ctx, current_exp),
                     !.stale = ~valid_for_next(ctx, current_exp) /\ ~ctx.d.none]
         IN IF st.raised
            THEN /\ ctx' = st.ctx
                 /\ table' = st.table
                 /\ scene' = SceneEmpty
                 /\ ev' = [e EXCEPT !.at = "loop"]
                 /\ UNCHANGED <<cur, btn>>
            ELSE IF st.ctx.d.none \/ fail.kind = "display"
            THEN \* get_tensor reads self.d, which is None, or the volume
                 \* cannot be shown
                 /\ ctx' = st.ctx
                 /\ table' = t3
                 /\ cur' = next_idx
                 /\ scene' = SceneEmpty
                 /\ ev' = [e EXCEPT !.at = IF st.ctx.d.none THEN "tensor" ELSE "display"]
                 /\ UNCHANGED btn
            ELSE /\ ctx' = c3
                 /\ table' = t3
                 /\ cur' = next_idx
                 /\ scene' = [shown |-> TRUE, ops |-> st.ctx.d.ops,
                              idx |-> get_tensor(st.ctx).idx,
                              squeezed |-> get_tensor(st.ctx).squeezed]
                 /\ btn' = [btn EXCEPT !.clear = valid(c3)]
                 /\ ev' = [e EXCEPT !.outcome = "ok", !.ran = cur]

\* str(row) as json.dump writes a row index, and int(idx) reading it back
Digits == <<"0", "1", "2", "3", "4", "5", "6", "7", "8", "9">>

ToStr(i) == Digits[i + 1]

ToInt(str) == CHOOSE i \in 0..9 : Digits[i + 1] = str

\* the JSON object onSaveTransform writes for table t, in key order
SavedJson(t) == [i \in 1..Len(t) |-> [idx |-> ToStr(i - 1), name |-> t[i].name, args |-> t[i].args]]

\* a file name is chosen in the dialog (cancelling it changes nothing)
onSaveTransform ==
    /\ Step
    /\ btn.sel
    /\ file' = <<SavedJson(table)>>
    /\ ev' = Ev("save", -1, "ok")
    /\ UNCHANGED <<table, cur, btn, ctx, imagePath, scene, cursor, docCached, bundleCached>>

\* the argument string onLoadTransform gives the row of a file entry
LoadedArgs(entry) ==
    IF EndsWithD(entry.name) /\ entry.name \notin ExcludedNames THEN entry.args ELSE ""

\* the loop of onLoadTransform over entries i.. of the file
RECURSIVE LoadRows(_, _, _, _)
LoadRows(u, c, entries, i) ==
    IF i > Len(entries) THEN u
    ELSE LoadRows(addTransform(u, c, ToInt(entries[i].idx), "", entries[i].name,
                               LoadedArgs(entries[i]), TRUE),
                  c, entries, i + 1)

\* the saved file is chosen in the dialog (cancelling it changes nothing)
onLoadTransform ==
    /\ Step
    /\ file # <<>>
    /\ rowCount(table) + Len(file[1]) <= MaxRows
    /\ SetU(LoadRows(U, ctx, file[1], 1))
    /\ ev' = Ev("load", -1, "ok")
    /\ UNCHANGED <<ctx, imagePath, scene, cursor, file, docCached, bundleCached>>

\* the rows onImportBundle puts in the table: every checkbox slot reads the
\* row property of the box made last
BundleRows(ts) ==
    [i \in 1..Len(ts) |->
        [name |-> ts[i].name, args |-> ts[i].args, active |-> TRUE,
         done |-> FALSE, boxrow |-> Len(ts) - 1]]

\* a bundle directory that is never found
BundleExists_Never(cached) == FALSE

\* os.path.exists(this_bundle)
BundleExists(cached) == cached

onImportBundle(confirm, downloaded) ==
    /\ Step
    /\ UNCHANGED <<btn, ctx, imagePath, file, docCached>>
    /\ IF ~BundleExists(bundleCached) /\ ~confirm
       THEN /\ ev' = [Ev("import", -1, "noop") EXCEPT !.prompt = TRUE]
            /\ UNCHANGED <<table, cur, scene, cursor, bundleCached>>
       ELSE IF ~BundleExists(bundleCached) /\ ~downloaded
       THEN \* MonaiUtils.download_bundle raises
            /\ ev' = [Ev("import", -1, "raised") EXCEPT !.prompt = TRUE, !.download = TRUE]
            /\ cursor' = restoreOverrideCursor(setOverrideCursor(cursor))
            /\ UNCHANGED <<table, cur, scene, bundleCached>>
       ELSE /\ bundleCached' = TRUE
            /\ cursor' = IF BundleExists(bundleCached) THEN cursor
                         ELSE restoreOverrideCursor(setOverrideCursor(cursor))
            /\ table' = BundleRows(BundleTransforms)
            /\ cur' = IF cur < Len(BundleTransforms) THEN cur ELSE Len(BundleTransforms) - 1
            /\ scene' = SceneEmpty
            /\ ev' = [Ev("import", -1, "ok") EXCEPT
                        !.prompt = ~BundleExists(bundleCached),
                        !.download = ~BundleExists(bundleCached)]

Next ==
    \/ \E p \in ImagePaths : SetImagePath(p)
    \/ \E row \in 0..(MaxRows - 1) : SelectCell(row)
    \/ \E t \in TransformNames : onAddTransform(t)
    \/ \E q \in {"above", "below"} : RemoveButton(q)
    \/ \E q \in {"above", "below"} : MoveUpButton(q)
    \/ \E q \in {"above", "below"} : MoveDownButton(q)
    \/ ClearButton
    \/ \E dlg \in DialogResults : onEditTransform(dlg)
    \/ \E i \in 0..(MaxRows - 1) : onBoxClicked(i)
    \/ onShowDictionary
    \/ \E fail \in Fails(table) : onRunTransform(fail)
    \/ onSaveTransform
    \/ onLoadTransform
    \/ \E confirm \in BOOLEAN, downloaded \in BOOLEAN : onImportBundle(confirm, downloaded)

Spec == Init /\ [][Next]_vars

(* ------------------- the transform catalog (utils.py) ------------------ *)

\* the widget's own variables, which no library call touches
widget == <<table, cur, btn, ctx, imagePath, scene, cursor, file, docCached,
            bundleCached, ev, steps>>

\* the widget as setup leaves it, before any handler ran
Idle ==
    /\ table = <<>>
    /\ cur = -1
    /\ btn = [sel |-> FALSE, up |-> FALSE, down |-> FALSE, clear |-> FALSE]
    /\ ctx = CtxInit
    /\ imagePath = ""
    /\ scene = SceneEmpty
    /\ cursor = 0
    /\ file = <<>>
    /\ docCached = FALSE
    /\ bundleCached = FALSE
    /\ ev = Ev("init", -1, "ok")
    /\ steps = 0

\* the characters of the names below, in code point order
Alphabet == ".ABCDEFGHIJKLMNOPQRSTUVWXYZ_abcdefghijklmnopqrstuvwxyz"

Ord(ch) == CHOOSE i \in 1..Len(Alphabet) : SubSeq(Alphabet, i, i) = ch

\* a < b for Python strings
RECURSIVE StrLt(_, _)
StrLt(a, b) ==
    IF b = "" THEN FALSE
    ELSE IF a = "" THEN TRUE
    ELSE IF SubSeq(a, 1, 1) = SubSeq(b, 1, 1)
    THEN StrLt(SubSeq(a, 2, Len(a)), SubSeq(b, 2, Len(b)))
    ELSE Ord(SubSeq(a, 1, 1)) < Ord(SubSeq(b, 1, 1))

\* sorted(S) for a set of strings
RECURSIVE Sorted(_)
Sorted(S) ==
    IF S = {} THEN <<>>
    ELSE LET m == CHOOSE x \in S : \A y \in S \ {x} : StrLt(x, y)
         IN <<m>> \o Sorted(S \ {m})

\* s.endswith(suffix)
EndsWith(s, suffix) ==
    Len(s) >= Len(suffix) /\ SubSeq(s, Len(s) - Len(suffix) + 1, Len(s)) = suffix

\* the length of the prefix of s that ".".join(s.split(".")[:n]) keeps
RECURSIVE PrefixLen(_, _, _)
PrefixLen(s, n, i) ==
    IF i > Len(s) THEN Len(s)
    ELSE IF SubSeq(s, i, i) = "."
    THEN (IF n = 1 THEN i - 1 ELSE PrefixLen(s, n - 1, i + 1))
    ELSE PrefixLen(s, n, i + 1)

\* ".".join(module.split(".")[:3])
Category(module) == SubSeq(module, 1, PrefixLen(module, 3, 1))

\* objects a module can hold under a member name: classes with their
\* __name__, __module__, the __name__ of each direct base and whether
\* inspect.isabstract holds, and one object that is not a class
Cls(name, module, bases, abstract) ==
    [isclass |-> TRUE, name |-> name, module |-> module, bases |-> bases,
     abstract |-> abstract]

NotAClass ==
    [isclass |-> FALSE, name |-> "", module |-> "", bases |-> {}, abstract |-> FALSE]

Objects ==
    { Cls("Transform", "monai.transforms.transform", {"ABC"}, TRUE),
      Cls("MapTransform", "monai.transforms.transform", {"Transform"}, TRUE),
      Cls("LoadImage", "monai.transforms.io.array", {"Transform"}, FALSE),
      Cls("LoadImaged", "monai.transforms.io.dictionary", {"MapTransform"}, FALSE),
      Cls("Compose", "monai.transforms.compose", {"Randomizable", "LazyTransform"}, FALSE),
      Cls("Transform", "mylib.transforms", {"Transform"}, FALSE),
      NotAClass }

MemberNames == {"LoadImage", "LoadImaged", "LoadImageD", "Transform"}

\* a module: its member names and the object bound to each
Modules == UNION {[ns -> Objects] : ns \in SUBSET MemberNames}

\* is_subclass without the comparison of the member name
is_subclass_AnyName(n, o, base_c) == o.isclass /\ base_c \in o.bases

\* is_subclass(n, o, base_c)
is_subclass(n, o, base_c) == o.isclass /\ n # base_c /\ base_c \in o.bases

\* f"{o.__module__}.{o.__name__}"
QualName(o) == o.module \o "." \o o.name

\* position of key cp in the insertion-ordered dict res, 0 when absent
KeyIndex(res, cp) ==
    IF \E i \in 1..Len(res) : res[i].class = cp
    THEN CHOOSE i \in 1..Len(res) : res[i].class = cp
    ELSE 0

\* the first base class of base_classes[i..] that is_subclass accepts, "" if none
RECURSIVE FirstBase(_, _, _, _)
FirstBase(n, o, base_classes, i) ==
    IF i > Len(base_classes) THEN ""
    ELSE IF is_subclass(n, o, base_classes[i]) THEN base_classes[i]
    ELSE FirstBase(n, o, base_classes, i + 1)

\* the loop of get_class_of_subclass over inspect.getmembers(module), which
\* lists the members sorted by name; res is the dict built so far
RECURSIVE Members(_, _, _, _, _)
Members(module, names, i, base_classes, res) ==
    IF i > Len(names) THEN res
    ELSE LET n == names[i]
             o == module[n]
             base_c == FirstBase(n, o, base_classes, 1)
             cp == QualName(o)
             k == KeyIndex(res, cp)
             res2 == IF ~o.isclass \/ o.abstract \/ base_c = "" THEN res
                     ELSE IF k > 0
                     THEN [res EXCEPT ![k].alias = Append(@, n)]
                     ELSE Append(res, [name |-> o.name, alias |-> <<n>>, class |-> cp,
                                       module |-> o.module,
                                       dictionary |-> EndsWith(o.module, "dictionary"),
                                       base_class |-> base_c,
                                       category |-> Category(o.module)])
         IN Members(module, names, i + 1, base_classes, res2)

\* the elements of a sequence, as a set
Range(f) == {f[i] : i \in DOMAIN f}

\* get_class_of_subclass(module, base_classes): the entries in key order
get_class_of_subclass(module, base_classes) ==
    LET res == Members(module, Sorted(DOMAIN module), 1, base_classes, <<>>)
        keys == Sorted({res[i].class : i \in 1..Len(res)})
    IN [j \in 1..Len(keys) |->
          LET v == res[KeyIndex(res, keys[j])]
          IN [v EXCEPT !.alias = Sorted(Range(v.alias))]]

\* MonaiUtils.list_transforms(module)
list_transforms(module) == get_class_of_subclass(module, <<"Transform", "MapTransform">>)

InitCatalog ==
    /\ Idle
    /\ settings = NoSettings
    /\ call \in {[fn |-> "list_transforms", in |-> m, out |-> <<>>, done |-> FALSE] :
                   m \in Modules}

ListTransforms ==
    /\ call.fn = "list_transforms" /\ ~call.done
    /\ call' = [call EXCEPT !.out = list_transforms(call.in), !.done = TRUE]
    /\ UNCHANGED <<widget, settings>>

NextCatalog == ListTransforms

SpecCatalog == InitCatalog /\ [][NextCatalog]_vars

(* ------------------ adding rows under stored settings ------------------ *)

\* names the transforms combo box can offer once a catalog is loaded
CatalogNames ==
    {"LoadImaged", "Spacingd", "Spacing", "AffineGrid", "Decollated",
     "RandAffineGrid", "RandDeformGrid"}

\* key names the user can type in the settings panel
KeyNames == {"image", "img", "label", "seg"}

\* the settings once the panel stored its Image Key and Label Key fields
PanelStore(ik, lk) ==
    [k \in {"MONAIViz/imageKey", "MONAIViz/labelKey"} |->
        IF k = "MONAIViz/imageKey" THEN ik ELSE lk]

SettingsStores ==
    {NoSettings} \cup {PanelStore(ik, lk) : ik \in {"image", "img"}, lk \in {"label", "seg"}}

\* the keys prepare_dict and onRunTransform use for the input dictionary
image_key == settingsValue("MONAIViz/imageKey", "image")

label_key == settingsValue("MONAIViz/labelKey", "label")

InitAdd ==
    /\ Idle
    /\ settings \in SettingsStores
    /\ call = CallNone

NextAdd ==
    \/ \E t \in CatalogNames : onAddTransform(t)
    \/ \E row \in 0..(MaxRows - 1) : SelectCell(row)

SpecAdd == InitAdd /\ [][NextAdd]_vars

(* ------------------- the transforms of a bundle (utils.py) -------------- *)

\* what a bundle config holds under a key: nothing, or a list of transform
\* configs (given by their _target_)
KeyValues ==
    {[has |-> FALSE, items |-> <<>>], [has |-> TRUE, items |-> <<>>],
     [has |-> TRUE, items |-> <<"LoadImaged">>],
     [has |-> TRUE, items |-> <<"LoadImaged", "EnsureChannelFirstd">>]}

\* a config file by its values under "train#preprocessing#transforms" and
\* "train#pre_transforms#transforms"
Configs == [preprocessing : KeyValues, pre_transforms : KeyValues]

\* a bundle directory: which of configs/train.json and configs/train.yaml
\* exist and what each one holds
Bundles == [jsonExists : BOOLEAN, yamlExists : BOOLEAN, json : Configs, yaml : Configs]

\* a config path that is always the JSON file
config_path_JsonOnly(b) == "configs/train.json"

\* config_path after the os.path.exists test
config_path(b) == IF b.jsonExists THEN "configs/train.json" ELSE "configs/train.yaml"

\* bundle_config.get(k) for the keys in the order the loop tries them; a key
\* the config lacks gives None
ConfigValues(cfg) == <<cfg.preprocessing, cfg.pre_transforms>>

\* if bundle_config.get(k): None and the empty list are both false
Truthy(v) == v.has /\ v.items # <<>>

\* the for loop over the two keys, from key i on
RECURSIVE FirstTruthy(_, _)
FirstTruthy(vals, i) ==
    IF i > Len(vals) THEN [none |-> TRUE, items |-> <<>>]
    ELSE IF Truthy(vals[i]) THEN [none |-> FALSE, items |-> vals[i].items]
    ELSE FirstTruthy(vals, i + 1)

\* MonaiUtils.transforms_from_bundle(name, bundle_dir): the path it reads,
\* whether read_config raised because the file is not there, and what it
\* returns
transforms_from_bundle(b) ==
    LET path == config_path(b)
        exists == IF path = "configs/train.json" THEN b.jsonExists ELSE b.yamlExists
        cfg == IF path = "configs/train.json" THEN b.json ELSE b.yaml
        r == FirstTruthy(ConfigValues(cfg), 1)
    IN IF ~exists
       THEN [path |-> path, raised |-> TRUE, none |-> FALSE, items |-> <<>>]
       ELSE [path |-> path, raised |-> FALSE, none |-> r.none, items |-> r.items]

InitBundle ==
    /\ Idle
    /\ settings = NoSettings
    /\ call \in {[fn |-> "transforms_from_bundle", in |-> b,
                  out |-> [path |-> "", raised |-> FALSE, none |-> FALSE, items |-> <<>>],
                  done |-> FALSE] : b \in Bundles}

TransformsFromBundle ==
    /\ call.fn = "transforms_from_bundle" /\ ~call.done
    /\ call' = [call EXCEPT !.out = transforms_from_bundle(call.in), !.done = TRUE]
    /\ UNCHANGED <<widget, settings>>

NextBundle == TransformsFromBundle

SpecBundle == InitBundle /\ [][NextBundle]_vars

(* --------------------------- refreshVersion ---------------------------- *)

\* calls of refreshVersion in one session (setup runs it at every reload)
MaxRefresh == 3

\* sets of module names the transforms of a catalog can come from
CatalogModules ==
    {{"monai.transforms.io.dictionary"},
     {"monai.transforms.io.array", "monai.transforms.io.dictionary"},
     {"mylib.transforms"}}

\* sets of bundle names MonaiUtils.list_bundles can return
BundleLists ==
    {{}, {"spleen_ct_segmentation"}, {"brats_mri_segmentation", "spleen_ct_segmentation"}}

\* comboBox.findText(text): the index from 0, -1 when the text is not there
findText(items, text) ==
    IF \E i \in 1..Len(items) : items[i] = text
    THEN (CHOOSE i \in 1..Len(items) : items[i] = text) - 1
    ELSE -1

\* max(0, i)
Max0(i) == IF i > 0 THEN i ELSE 0

\* the combo boxes of the widget and the installed libraries before the
\* first refresh; listCalls and bundleCalls count the calls of
\* MonaiUtils.list_transforms and MonaiUtils.list_bundles
RefreshInit(torch, monai) ==
    [fn |-> "refreshVersion", torch |-> torch, monai |-> monai, n |-> 0,
     version |-> <<>>, modules |-> <<>>, moduleIdx |-> -1,
     bundles |-> <<>>, bundleIdx |-> -1, stages |-> <<>>,
     listCalls |-> 0, bundleCalls |-> 0,
     askedTorch |-> FALSE, askedMonai |-> FALSE, outcome |-> "init"]

\* importMONAI that hands back the library whatever the user answered
importMONAI_Always(c, confirmTorch, confirmMonai) == "monai"

\* MONAIVizLogic.importMONAI: the library, or None, or an AttributeError on
\* None.__version__ once the user declined the installation of MONAI
importMONAI(c, confirmTorch, confirmMonai) ==
    IF ~c.torch /\ ~confirmTorch THEN "None"
    ELSE IF ~c.monai /\ ~confirmMonai THEN "raised"
    ELSE "monai"

\* refreshTransforms and the bundle part of refreshVersion
RefreshLists(c, catalog, bundleList) ==
    LET mods == <<"monai.transforms">> \o Sorted(catalog)
        bs == Sorted(bundleList)
    IN [c EXCEPT !.version = <<"1.3.0">>,
                 !.listCalls = @ + 1,
                 !.modules = mods,
                 !.moduleIdx = Max0(findText(mods, "monai.transforms.io.dictionary")),
                 !.bundleCalls = @ + 1,
                 !.bundles = bs,
                 !.bundleIdx = IF bs = <<>> THEN -1
                               ELSE Max0(findText(bs, "spleen_ct_segmentation")),
                 !.stages = <<"pre">>,
                 !.outcome = "ok"]

InitRefresh ==
    /\ Idle
    /\ settings = NoSettings
    /\ call \in {RefreshInit(t, m) : t \in BOOLEAN, m \in BOOLEAN}

refreshVersion(confirmTorch, confirmMonai, catalog, bundleList) ==
    /\ call.fn = "refreshVersion"
    /\ call.n < MaxRefresh
    /\ LET r == importMONAI(call, confirmTorch, confirmMonai)
           c1 == [call EXCEPT !.n = @ + 1,
                              !.version = <<>>,
                              !.askedTorch = ~call.torch,
                              !.askedMonai = (call.torch \/ confirmTorch) /\ ~call.monai,
                              !.torch = call.torch \/ confirmTorch,
                              !.monai = call.monai \/ ((call.torch \/ confirmTorch) /\ confirmMonai)]
       IN call' = IF r = "monai" THEN RefreshLists(c1, catalog, bundleList)
                  ELSE \* monai.__version__ on None raises AttributeError, in
                       \* refreshVersion or already in importMONAI
                       [c1 EXCEPT !.outcome = "raised"]
    /\ UNCHANGED <<widget, settings>>

NextRefresh ==
    \E confirmTorch \in BOOLEAN, confirmMonai \in BOOLEAN,
       catalog \in CatalogModules, bundleList \in BundleLists :
          refreshVersion(confirmTorch, confirmMonai, catalog, bundleList)

SpecRefresh == InitRefresh /\ [][NextRefresh]_vars

(* --------------------------- get_tensor_osd ---------------------------- *)

\* a matrix is the sequence of its rows; np.eye(n), np.diag(v)
Diag(v) == [i \in 1..Len(v) |-> [j \in 1..Len(v) |-> IF i = j THEN v[i] ELSE 0]]

Eye(n) == Diag([i \in 1..n |-> 1])

RECURSIVE Sum(_, _)
Sum(f, n) == IF n = 0 THEN 0 ELSE f[n] + Sum(f, n - 1)

\* a @ b
MatMul(a, b) ==
    [i \in 1..Len(a) |->
        [j \in 1..Len(b[1]) |-> Sum([k \in 1..Len(b) |-> a[i][k] * b[k][j]], Len(b))]]

\* the square root of a perfect square
Sqrt(x) == CHOOSE r \in 0..x : r * r = x

\* the affine of an n-dimensional tensor whose axes are those of the world
\* up to order, sign and scale: row i of the linear part has the entry
\* scale[i] in column perm[i]; the last column is the translation
Affine(n, perm, scale, shift) ==
    [i \in 1..(n + 1) |->
        [j \in 1..(n + 1) |->
            IF i = n + 1 THEN (IF j = n + 1 THEN 1 ELSE 0)
            ELSE IF j = n + 1 THEN shift[i]
            ELSE IF perm[i] = j THEN scale[i] ELSE 0]]

AxisOrders(n) == {p \in [1..n -> 1..n] : \A i, j \in 1..n : p[i] = p[j] => i = j}

Affines ==
    UNION {{Affine(n, p, sc, sh) : p \in AxisOrders(n), sc \in [1..n -> {-1, 1, 2}],
                                   sh \in [1..n -> {0, 5}]} : n \in 1..3}

\* origin, spacing and direction as the last lines of get_tensor_osd derive
\* them from the affine
Geometry(affine) ==
    LET dim == Len(affine) - 1
        origin == [i \in 1..dim |-> affine[i][dim + 1]]
        m == [i \in 1..dim |-> [j \in 1..dim |-> affine[i][j]]]
        me == MatMul(m, Eye(dim))
        spacing == [j \in 1..dim |-> Sqrt(Sum([i \in 1..dim |-> me[i][j] * me[i][j]], dim))]
        \* 1 / spacing is exact for the scales used here
        direction == [i \in 1..dim |-> [j \in 1..dim |-> m[i][j] \div spacing[j]]]
    IN [raised |-> FALSE, origin |-> origin, spacing |-> spacing, direction |-> direction]

\* TransformCtx.get_tensor_osd of MONAIViz/MONAIViz.py with scale=False, for
\* a tensor with this affine
get_tensor_osd(affine) == Geometry(affine)

\* TransformCtx.get_tensor_osd of SlicerMONAIViz.py: the affine is first
\* multiplied from the left by np.diag([-1, -1, 1, 1]), which raises
\* ValueError when the affine is not 4 x 4
get_tensor_osd_Slicer(affine) ==
    IF Len(affine) # 4
    THEN [raised |-> TRUE, origin |-> <<>>, spacing |-> <<>>, direction |-> <<>>]
    ELSE Geometry(MatMul(Diag(<<-1, -1, 1, 1>>), affine))

InitGeometry ==
    /\ Idle
    /\ settings = NoSettings
    /\ call \in {[fn |-> "get_tensor_osd", file |-> f, in |-> a,
                  out |-> [raised |-> FALSE, origin |-> <<>>, spacing |-> <<>>,
                           direction |-> <<>>],
                  done |-> FALSE] :
                    f \in {"MONAIViz/MONAIViz.py", "SlicerMONAIViz.py"}, a \in Affines}

GetTensorOsd ==
    /\ call.fn = "get_tensor_osd" /\ ~call.done
    /\ call.file = "MONAIViz/MONAIViz.py"
    /\ call' = [call EXCEPT !.out = get_tensor_osd(call.in), !.done = TRUE]
    /\ UNCHANGED <<widget, settings>>

GetTensorOsdSlicer ==
    /\ call.fn = "get_tensor_osd" /\ ~call.done
    /\ call.file = "SlicerMONAIViz.py"
    /\ call' = [call EXCEPT !.out = get_tensor_osd_Slicer(call.in), !.done = TRUE]
    /\ UNCHANGED <<widget, settings>>

NextGeometry == GetTensorOsd \/ GetTensorOsdSlicer

SpecGeometry == InitGeometry /\ [][NextGeometry]_vars

(* ------------------------------ helpers -------------------------------- *)

(* ------------------- the argument dialog (onUpdate) -------------------- *)

\* the most rows the dialog table has (len(args) + buffer_rows)
MaxCells == 2

\* table.item(row, col): None when the cell was never filled
NoItem == [item |-> FALSE, text |-> ""]

Item(text) == [item |-> TRUE, text |-> text]

\* what the user can leave in a key cell and in a value cell
KeyCells == {NoItem, Item(""), Item("keys"), Item("device")}

ValueCells == {NoItem, Item(""), Item("1"), Item("image"), Item("args.clear()")}

\* the tables the dialog can hold when update is pressed
DialogTables ==
    UNION {[1..n -> [k : KeyCells, v : ValueCells]] : n \in 0..MaxCells}

\* Python values
PyNone == [type |-> "NoneType", val |-> ""]

PyInt(i) == [type |-> "int", val |-> ToStr(i)]

PyStr(str) == [type |-> "str", val |-> str]

\* the empty dict
NoArgs == [k \in {} |-> PyNone]

\* str(item.text()) if item else None
CellText(cell) == IF cell.item THEN PyStr(cell.text) ELSE PyNone

\* eval(v) inside onUpdate: the text is evaluated with the names of the
\* method in scope, the dict `args` being built among them; ok is FALSE when
\* the evaluation raises (a NameError for the bare name image)
eval(text, args) ==
    IF text = "1" THEN [ok |-> TRUE, val |-> PyInt(1), args |-> args]
    ELSE IF text = "args.clear()" THEN [ok |-> TRUE, val |-> PyNone, args |-> NoArgs]
    ELSE [ok |-> FALSE, val |-> PyStr(text), args |-> args]

\* args[k] = v
SetItem(args, k, v) ==
    [x \in DOMAIN args \cup {k} |-> IF x = k THEN v ELSE args[x]]

\* the loop of onUpdate over rows row.. of the dialog table
RECURSIVE UpdateRows(_, _, _)
UpdateRows(cells, row, args) ==
    IF row > Len(cells) THEN args
    ELSE LET k == CellText(cells[row].k)
             v == CellText(cells[row].v)
         IN IF k = PyNone \/ k.val = ""
            THEN UpdateRows(cells, row + 1, args)
            ELSE IF v = PyNone \/ v.val = ""
            THEN UpdateRows(cells, row + 1, SetItem(args, k.val, v))
            ELSE LET e == eval(v.val, args)
                 IN UpdateRows(cells, row + 1,
                               SetItem(e.args, k.val, IF e.ok THEN e.val ELSE v))

\* self.updatedArgs after onUpdate; the bare except leaves nothing to raise
onUpdate(cells) == [raised |-> FALSE, updatedArgs |-> UpdateRows(cells, 1, NoArgs)]

InitDialog ==
    /\ Idle
    /\ settings = NoSettings
    /\ call \in {[fn |-> "onUpdate", in |-> cells,
                  out |-> [raised |-> FALSE, updatedArgs |-> NoArgs],
                  done |-> FALSE] : cells \in DialogTables}

OnUpdate ==
    /\ call.fn = "onUpdate" /\ ~call.done
    /\ call' = [call EXCEPT !.out = onUpdate(call.in), !.done = TRUE]
    /\ UNCHANGED <<widget, settings>>

NextDialog == OnUpdate

SpecDialog == InitDialog /\ [][NextDialog]_vars

(* ------------------- a session on a built pipeline --------------------- *)

\* the transforms the pipeline is built from: one that returns a dictionary
\* and one that returns a list of samples
PipelineNames == {"LoadImaged", "RandCropByPosNegLabeld"}

\* a pipeline file of three rows, as onSaveTransform wrote it in an earlier
\* session
PipelineFile(a, b, c) ==
    << [idx |-> ToStr(0), name |-> a, args |-> DefaultArgs(a)],
       [idx |-> ToStr(1), name |-> b, args |-> DefaultArgs(b)],
       [idx |-> ToStr(2), name |-> c, args |-> DefaultArgs(c)] >>

\* the widget once onLoadTransform has read that file into the empty table
PipelineOf(entries) ==
    LoadRows([table |-> <<>>, cur |-> -1,
              btn |-> [sel |-> FALSE, up |-> FALSE, down |-> FALSE, clear |-> FALSE]],
             CtxInit, entries, 1)

\* the first handler call of the session was onLoadTransform on a pipeline
\* file; an image is chosen and the documentation page is in the temp
\* directory from an earlier session
InitPipeline ==
    /\ settings = NoSettings
    /\ \E a \in PipelineNames, b \in PipelineNames, c \in PipelineNames :
          /\ file = <<PipelineFile(a, b, c)>>
          /\ table = PipelineOf(PipelineFile(a, b, c)).table
          /\ cur = PipelineOf(PipelineFile(a, b, c)).cur
          /\ btn = PipelineOf(PipelineFile(a, b, c)).btn
    /\ ctx = CtxInit
    /\ imagePath = "spleen_2.nii.gz"
    /\ scene = SceneEmpty
    /\ cursor = 0
    /\ docCached = TRUE
    /\ bundleCached = FALSE
    /\ ev = Ev("load", -1, "ok")
    /\ steps = 1
    /\ call = CallNone

\* the handlers that work on the rows of the pipeline and on the cache
NextPipeline ==
    \/ \E row \in 0..(MaxRows - 1) : SelectCell(row)
    \/ \E q \in {"above", "below"} : MoveUpButton(q)
    \/ \E q \in {"above", "below"} : MoveDownButton(q)
    \/ ClearButton
    \/ \E dlg \in DialogResults : onEditTransform(dlg)
    \/ \E i \in 0..(MaxRows - 1) : onBoxClicked(i)
    \/ onShowDictionary
    \/ \E fail \in Fails(table) : onRunTransform(fail)

SpecPipeline == InitPipeline /\ [][NextPipeline]_vars

(* ------------------------------ helpers -------------------------------- *)

\* the active rows among a..b of table t, ascending
ActiveRows(t, a, b) ==
    SelectSeq([i \in 1..(IF b >= a THEN b - a + 1 ELSE 0) |-> a + i - 1],
              LAMBDA r : t[r + 1].active)

\* the expressions of the rows `rows` of table t
Exps(t, rows) == [i \in 1..Len(rows) |-> get_exp(t, rows[i])]

\* a run that got past prepare_dict and in which no transform raised
RunCompletedLoop(e) ==
    e.op = "run" /\ e.outcome \in {"ok", "raised"} /\ e.at \in {"", "tensor", "display"}

(* ------------------------------- claims -------------------------------- *)

\* C1: whenever the cache is valid with frontier k = ctx.next_idx, ctx.d is
\* the result of applying to the input dictionary exactly the active rows
\* [0, k) of the table as it stands now, in table order (plus row k itself
\* only when k is the last row), and ctx.next_exp is the expression of the
\* current row k.
C1_CacheMatchesTable ==
    valid(ctx) =>
        /\ ctx.next_idx < rowCount(table)
        /\ ctx.next_exp = get_exp(table, ctx.next_idx)
        /\ \/ ctx.d.ops = Exps(table, ActiveRows(table, 0, ctx.next_idx - 1))
           \/ /\ ctx.next_idx = rowCount(table) - 1
              /\ ctx.d.ops = Exps(table, ActiveRows(table, 0, ctx.next_idx))

\* C2: a successful run on row k that starts from frontier f (0 when the
\* cache is empty or was just invalidated) applies exactly the active rows
\* of [f, k], each once and in ascending order, also when two rows carry the
\* same expression.  The repeat of a run on the last row, whose result the
\* cache already holds, is C4's case and is set aside here.
C2_RunAppliesFrontierToRow ==
    [][(ev'.op = "run" /\ ev'.outcome = "ok"
          /\ ~(ev.ran = cur /\ cur = rowCount(table) - 1))
       => ev'.applied = ActiveRows(table, ev'.from, cur)]_vars

\* C3: a run in which evaluating or applying a transform raises
\* leaves every field of the cache as it was before the call.
C3_FailedRunKeepsCache ==
    [][(ev'.op = "run" /\ ev'.outcome = "raised" /\ ev'.at = "loop")
       => ctx' = ctx]_vars

\* C3 (amended): a run in which evaluating or applying a transform raises is
\* not rolled back.  The reset get_d made when the selected row was not the
\* expected next one stays, and so does the set_d of every row applied before
\* the failing one; set_next is not reached, so next_idx, next_exp and bidx
\* are the pre-call values when get_d made no reset and 0, "" and 0 after a
\* reset.
C3_FailedRunKeepsFrontier ==
    [][(ev'.op = "run" /\ ev'.outcome = "raised" /\ ev'.at = "loop")
       => LET wasReset == get_exp(table, cur) # ctx.next_exp
              start == IF wasReset \/ ~valid(ctx) THEN <<>> ELSE ctx.d.ops
          IN /\ ctx'.next_idx = (IF wasReset THEN 0 ELSE ctx.next_idx)
             /\ ctx'.next_exp = (IF wasReset THEN "" ELSE ctx.next_exp)
             /\ ctx'.bidx = (IF wasReset THEN 0 ELSE ctx.bidx)
             /\ ev'.applied = <<>> => ctx'.d = (IF wasReset THEN DNone ELSE ctx.d)
             /\ ev'.applied # <<>> =>
                  /\ ctx'.d.ops = start \o Exps(table, ev'.applied)
                  /\ ctx'.last_exp = get_exp(table, ev'.applied[Len(ev'.applied)])]_vars

C3_Witness ==
    ev.op = "run" /\ ev.outcome = "raised" /\ ev.at = "loop" /\ ev.applied # <<>>

\* C4: running again the row that was just run and cached, last
\* row or not, applies no transform and only advances the batch cursor, so
\* that the batch element shown moves from i to (i + 1) mod len(data).
C4_RerunAdvancesCursor ==
    [][(ev'.op = "run" /\ ev'.outcome = "ok" /\ ev.ran = cur)
       => /\ ev'.applied = <<>>
          /\ ctx'.d = ctx.d
          /\ ctx'.bidx = ctx.bidx + 1
          /\ ctx.d.batch > 0 => scene'.idx = (scene.idx + 1) % ctx.d.batch]_vars

\* C5: a run on row k that finds the cache empty, or row k's expression
\* different from ctx.next_exp, resets the cache and applies every active row
\* from 0 through k, in order, to the freshly prepared input dictionary and
\* to nothing that was cached before.
C5_MismatchRecomputesFromZero ==
    [][(RunCompletedLoop(ev')
          /\ (ctx.d.none \/ get_exp(table, cur) # ctx.next_exp))
       => /\ ev'.from = 0
          /\ ev'.applied = ActiveRows(table, 0, cur)
          /\ ctx'.bidx = 0
          /\ ev'.applied # <<>> => ctx'.d.ops = Exps(table, ev'.applied)
          /\ ev'.applied = <<>> => ctx'.d = DNone]_vars

C5_Witness ==
    ev.op = "run" /\ ev.outcome = "ok" /\ ev.stale /\ Len(ev.applied) >= 2

\* C6: after a successful run on row k of a table of N rows, ctx.next_idx is
\* k + 1, ctx.next_exp is the expression of row k + 1 and row k + 1 is
\* selected when k + 1 < N; when k is the last row ctx.next_idx is k and
\* ctx.next_exp is the expression of row k.
C6_FrontierAfterRun ==
    (ev.op = "run" /\ ev.outcome = "ok") =>
        IF ev.row + 1 < rowCount(table)
        THEN /\ ctx.next_idx = ev.row + 1
             /\ ctx.next_exp = get_exp(table, ev.row + 1)
             /\ cur = ev.row + 1
        ELSE /\ ctx.next_idx = ev.row
             /\ ctx.next_exp = get_exp(table, ev.row)
             /\ cur = ev.row

C6_Witness ==
    ev.op = "run" /\ ev.outcome = "ok" /\ ev.row + 1 < rowCount(table)
    /\ ctx.next_idx = ev.row + 1

\* C7: an edit that changes the argument text of a row j below the frontier
\* (j < ctx.next_idx) leaves the cache Empty; the cache stays Empty until the
\* next run, and that run, on any row k, applies every active row from 0
\* through k.
C7_EditBelowFrontierInvalidates ==
    [][/\ (ev'.op = "edit" /\ cur >= 0 /\ cur < ctx.next_idx
             /\ rowCount(table') = rowCount(table)
             /\ table'[cur + 1].args # table[cur + 1].args)
          => (ctx' = CtxInit /\ \A i \in 1..Len(table') : ~table'[i].done)
       /\ (ctx = CtxInit /\ ev'.op # "run") => ctx' = CtxInit
       /\ (ctx = CtxInit /\ RunCompletedLoop(ev'))
          => ev'.applied = ActiveRows(table, 0, cur)]_vars

C7_Witness ==
    /\ ev.op = "edit" /\ ev.outcome = "ok" /\ ev.wasReset
    /\ ev.row < ev.from /\ ev.row < rowCount(table) - 1
    /\ ctx = CtxInit

\* C8: onClearTransform / TransformCtx.reset leaves the cache Empty from
\* whatever state it is called in: d is None, last_exp and next_exp are
\* empty, next_idx and bidx are 0, channel is false, the captured shape and
\* affine are None, valid() is false and every row's status is not-executed.
C8_ClearLeavesEmpty ==
    (ev.op = "clear" \/ (ev.op = "edit" /\ ev.wasReset)) =>
        /\ ctx.d = DNone /\ ctx.last_exp = "" /\ ctx.next_exp = ""
        /\ ctx.next_idx = 0 /\ ctx.bidx = 0 /\ ~ctx.channel
        /\ ctx.original_spatial_shape = <<>> /\ ctx.original_affine = <<>>
        /\ ~valid(ctx)
        /\ \A i \in 1..Len(table) : ~table[i].done

C8_Witness == ev.op = "clear" /\ ev.from > 0 /\ ctx = CtxInit

\* C9: saving a pipeline with onSaveTransform and loading the file with
\* onLoadTransform into an empty table gives back the same number of rows, in
\* the same order, with the same name and the same argument string in every
\* row, whatever the transform names and argument strings are.
C9_SaveLoadRoundTrip ==
    [][(ev'.op = "load" /\ table = <<>>)
       => /\ Len(table') = Len(file[1])
          /\ \A i \in 1..Len(file[1]) :
                /\ table'[i].name = file[1][i].name
                /\ table'[i].args = file[1][i].args]_vars

\* C10: with no image path selected onRunTransform shows its message and
\* returns without raising; the cache, the table rows and their statuses, the
\* selection, the buttons, the scene and the override cursor are as before.
C10_NoImageChangesNothing ==
    [][(ev'.op = "run" /\ imagePath = "")
       => /\ ev'.outcome = "msg"
          /\ UNCHANGED <<table, cur, btn, ctx, scene, cursor>>]_vars

C10_Witness ==
    ev.op = "run" /\ ev.outcome = "msg" /\ ~ctx.d.none /\ scene.shown

\* the member names of module m whose object is a non-abstract class with a
\* direct base named Transform or MapTransform
DirectSubclassMembers(m) ==
    {n \in DOMAIN m : /\ m[n].isclass /\ ~m[n].abstract
                      /\ m[n].bases \cap {"Transform", "MapTransform"} # {}}

\* the same, leaving out a base class whose name is the member's own name
ListedMembers(m) ==
    {n \in DOMAIN m : /\ m[n].isclass /\ ~m[n].abstract
                      /\ \E b \in {"Transform", "MapTransform"} :
                            b # n /\ b \in m[n].bases}

\* the catalog `out` has one entry per class of the members ns of module m,
\* its aliases are all of those member names bound to the class, sorted, and
\* the entries are in sorted order of qualified name
CatalogOf(m, ns, out) ==
    /\ {out[i].class : i \in 1..Len(out)} = {QualName(m[n]) : n \in ns}
    /\ \A i \in 1..Len(out) :
          /\ Range(out[i].alias) = {n \in ns : QualName(m[n]) = out[i].class}
          /\ \A j \in 1..(Len(out[i].alias) - 1) :
                StrLt(out[i].alias[j], out[i].alias[j + 1])
    /\ \A i \in 1..(Len(out) - 1) : StrLt(out[i].class, out[i + 1].class)

\* C11 (as stated): list_transforms returns an entry for exactly the member
\* classes that are non-abstract and have a direct base class named Transform
\* or MapTransform; a class bound to several member names has one entry with
\* all those names sorted as its aliases; the keys are in sorted order.
C11_CatalogExactlyDirectSubclasses ==
    (call.fn = "list_transforms" /\ call.done)
        => CatalogOf(call.in, DirectSubclassMembers(call.in), call.out)

\* C11 (amended): the same with one more condition on a member: the direct
\* base class that qualifies it must have a name other than the member's own
\* name, so a member called Transform counts only through a base called
\* MapTransform, and a member called MapTransform only through a base called
\* Transform.
C11_CatalogExactlyListedMembers ==
    (call.fn = "list_transforms" /\ call.done)
        => CatalogOf(call.in, ListedMembers(call.in), call.out)

C11_Witness ==
    /\ call.fn = "list_transforms" /\ call.done
    /\ Len(call.out) = 2
    /\ \E i \in 1..2 : Len(call.out[i].alias) = 2
    /\ DirectSubclassMembers(call.in) # ListedMembers(call.in)

\* C12: onAddTransform gives the new row the default argument string
\* keys=[..., ...] exactly when the transform name ends in 'd' and is not
\* AffineGrid, Decollated, RandAffineGrid or RandDeformGrid; for every other
\* name the new row's argument string is empty.
C12_DefaultKeysForDictionaryNames ==
    [][(ev'.op = "add" /\ Len(table') = Len(table) + 1)
       => LET r == table'[cur' + 1]
          IN IF EndsWith(r.name, "d")
                /\ r.name \notin {"AffineGrid", "Decollated", "RandAffineGrid", "RandDeformGrid"}
             THEN \E k1 \in KeyNames, k2 \in KeyNames :
                     r.args = "keys=['" \o k1 \o "', '" \o k2 \o "']"
             ELSE r.args = ""]_vars

C12_Witness ==
    /\ ev.op = "add" /\ Len(table) = 3
    /\ \E i \in 1..3 : table[i].name = "LoadImaged" /\ table[i].args # ""
    /\ \E i \in 1..3 : table[i].name = "RandAffineGrid" /\ table[i].args = ""
    /\ \E i \in 1..3 : table[i].name = "Spacing" /\ table[i].args = ""

\* C13: for every value of the image-key and label-key settings, the keys in
\* the default keys=[...] that onAddTransform suggests are the key names
\* prepare_dict and onRunTransform use for the input dictionary.
C13_DefaultKeysAreConfiguredKeys ==
    [][(ev'.op = "add" /\ Len(table') = Len(table) + 1 /\ table'[cur' + 1].args # "")
       => table'[cur' + 1].args = "keys=['" \o image_key \o "', '" \o label_key \o "']"]_vars

\* C14: onImportBundle for a bundle whose directory already exists asks for
\* no confirmation and makes no download call; a download that completed
\* leaves the directory in place and the directory is never removed, so
\* importing the same bundle again and again downloads it at most once.
C14_CachedBundleNotDownloaded ==
    [][/\ (ev'.op = "import" /\ bundleCached) => (~ev'.prompt /\ ~ev'.download)
       /\ (ev'.op = "import" /\ ev'.download /\ ev'.outcome = "ok") => bundleCached'
       /\ bundleCached => bundleCached']_vars

C14_Witness ==
    ev.op = "import" /\ ev.outcome = "ok" /\ bundleCached /\ ~ev.download
    /\ table = BundleRows(BundleTransforms)

\* C15: transforms_from_bundle reads configs/train.json when that file
\* exists and configs/train.yaml otherwise; from the file it read it returns
\* the transform configs under train#preprocessing#transforms when that key
\* has a value (a non-empty list), else those under
\* train#pre_transforms#transforms, and None when neither key has a value.
C15_BundleTransformsByKey ==
    (call.fn = "transforms_from_bundle" /\ call.done) =>
        LET b == call.in
            out == call.out
            cfg == IF b.jsonExists THEN b.json ELSE b.yaml
            p == cfg.preprocessing
            q == cfg.pre_transforms
        IN /\ out.path = (IF b.jsonExists THEN "configs/train.json" ELSE "configs/train.yaml")
           /\ out.raised = (~b.jsonExists /\ ~b.yamlExists)
           /\ ~out.raised =>
                IF p.has /\ p.items # <<>> THEN ~out.none /\ out.items = p.items
                ELSE IF q.has /\ q.items # <<>> THEN ~out.none /\ out.items = q.items
                ELSE out.none

C15_Witness ==
    /\ call.fn = "transforms_from_bundle" /\ call.done
    /\ ~call.in.jsonExists /\ call.in.yamlExists
    /\ ~call.in.yaml.preprocessing.has
    /\ call.in.json.preprocessing.items # call.in.yaml.pre_transforms.items
    /\ call.out.items = <<"LoadImaged", "EnsureChannelFirstd">>

\* C16: when the transforms library or its backend is missing and the user
\* declines the installation, refreshVersion makes no catalog lookup and no
\* bundle listing call, and the transform and bundle lists are not
\* repopulated.
C16_DeclineAbortsRefresh ==
    [][(call.fn = "refreshVersion" /\ call'.n = call.n + 1
          /\ (call'.askedTorch \/ call'.askedMonai) /\ ~(call'.torch /\ call'.monai))
       => /\ call'.listCalls = call.listCalls
          /\ call'.bundleCalls = call.bundleCalls
          /\ call'.modules = call.modules /\ call'.moduleIdx = call.moduleIdx
          /\ call'.bundles = call.bundles /\ call'.bundleIdx = call.bundleIdx
          /\ call'.outcome # "ok"]_vars

C16_Witness ==
    /\ call.fn = "refreshVersion" /\ call.outcome = "raised"
    /\ call.torch /\ ~call.monai /\ call.askedMonai
    /\ call.listCalls = 0 /\ call.bundles = <<>>

\* C17: get_tensor_osd on a tensor whose affine is the (n+1) x (n+1)
\* identity matrix returns the zero vector of length n as origin, the
\* all-ones vector as spacing and the n x n identity matrix as direction.
C17_IdentityAffineGeometry ==
    (call.fn = "get_tensor_osd" /\ call.done /\ call.in = Eye(Len(call.in)))
        => LET n == Len(call.in) - 1
           IN /\ ~call.out.raised
              /\ call.out.origin = [i \in 1..n |-> 0]
              /\ call.out.spacing = [i \in 1..n |-> 1]
              /\ call.out.direction = Eye(n)

\* C18: in every run a row whose checkbox is unchecked is never applied to
\* the data, and whenever the loop of the run passes over such a row its
\* status becomes not-executed, while every active row the loop applies
\* becomes executed.
C18_InactiveRowsSkipped ==
    [][(ev'.op = "run" /\ ev'.outcome \in {"ok", "raised"} /\ ev'.at # "prepare")
       => /\ \A i \in 1..Len(ev'.applied) : table[ev'.applied[i] + 1].active
          /\ (RunCompletedLoop(ev')
                /\ ~(ctx.next_exp = get_exp(table, cur) /\ ctx.last_exp = get_exp(table, cur)))
             => \A r \in ev'.from..cur :
                   IF table[r + 1].active
                   THEN table'[r + 1].done /\ \E i \in 1..Len(ev'.applied) : ev'.applied[i] = r
                   ELSE ~table'[r + 1].done /\ \A i \in 1..Len(ev'.applied) : ev'.applied[i] # r]_vars

C18_Witness ==
    /\ ev.op = "run" /\ ev.outcome = "ok" /\ ev.row = 2 /\ ev.applied = <<0, 2>>
    /\ ~table[2].active /\ ~table[2].done /\ table[1].done /\ table[3].done

\* C19: a run in which every applied transform succeeds completes without
\* raising and shows a volume for every combination of active flags on rows
\* 0..k, all rows inactive included: a run raises only where preparing the
\* input, a transform or the display itself failed.
C19_RunShowsVolumeForAnyFlags ==
    (ev.op = "run" /\ ev.outcome = "raised") => ev.at \in {"prepare", "loop", "display"}

\* C20: after every successful onRunTransform, for every table size N >= 1
\* and every selected row, ctx.valid() is true and the clear button is
\* enabled.
C20_CacheValidAfterRun ==
    (ev.op = "run" /\ ev.outcome = "ok") => (valid(ctx) /\ btn.clear)

\* an edit step that changes the argument text of the current row
EditChanges(t, t2, e2, row) ==
    e2.op = "edit" /\ row >= 0 /\ rowCount(t2) = rowCount(t)
    /\ t2[row + 1].args # t[row + 1].args

\* a run on the row whose text the edit just before it changed, that row
\* being at or above the frontier the edit found
RunFollowsEditAbove(e, e2, row) ==
    e.op = "edit" /\ e.from >= 0 /\ e.row >= e.from /\ e.row = row
    /\ RunCompletedLoop(e2)

C22_BoxClickResetsCache ==
    ev.op = "box" => (ev.outcome = "ok" /\ ctx = CtxInit)

\* the target, argument string and active flag of a row
RowContent(r) == [name |-> r.name, args |-> r.args, active |-> r.active]

\* table t2 is table t with rows a and b (0-based) exchanged
Exchanged(t, t2, a, b) ==
    /\ rowCount(t2) = rowCount(t)
    /\ RowContent(t2[a + 1]) = RowContent(t[b + 1])
    /\ RowContent(t2[b + 1]) = RowContent(t[a + 1])
    /\ \A i \in 1..Len(t) : (i # a + 1 /\ i # b + 1) => RowContent(t2[i]) = RowContent(t[i])

\* C23: move-up on the selected row r > 0 exchanges rows r and r-1, and
\* move-down on the selected row r < N-1 exchanges rows r and r+1: both rows
\* keep target, argument string and active flag, the row count stays N, every
\* other row stays at its index and the moved row stays selected; a move-up
\* followed by a move-down restores the original order.
C23_MoveExchangesAdjacentRows ==
    [][/\ (ev'.op = "up" /\ cur > 0)
          => (Exchanged(table, table', cur, cur - 1) /\ cur' = cur - 1)
       /\ (ev'.op = "down" /\ cur >= 0 /\ cur < rowCount(table) - 1)
          => (Exchanged(table, table', cur, cur + 1) /\ cur' = cur + 1)
       /\ (cur > 0)
          => \A q1 \in {"above", "below"}, q2 \in {"above", "below"} :
                LET up == onMoveUpTransform(U, ctx, q1)
                    back == onMoveDownTransform(up, ctx, q2)
                IN /\ up.btn.down
                   /\ back.cur = cur
                   /\ \A i \in 1..Len(table) :
                         RowContent(back.table[i]) = RowContent(table[i])]_vars

\* an unchecked row of a three-row table was moved up past a different row
C23_Witness ==
    /\ ev.op = "up" /\ ev.outcome = "ok" /\ ev.row = 2 /\ cur = 1
    /\ rowCount(table) = 3
    /\ ~table[2].active /\ table[3].active
    /\ table[2].name # table[3].name

\* the rows of the dialog table with a non-empty key cell
KeyedRows(cells) == {r \in 1..Len(cells) : cells[r].k.item /\ cells[r].k.text # ""}

\* the value the claim gives a value cell: the evaluated cell when the
\* evaluation succeeds, the raw cell text when it fails
CellValue(cell) ==
    IF ~cell.item THEN PyNone
    ELSE IF eval(cell.text, NoArgs).ok THEN eval(cell.text, NoArgs).val
    ELSE PyStr(cell.text)

\* C24: onUpdate never raises, whatever the cells hold, and its mapping has
\* exactly the keys of the rows whose key cell is not empty; each value is
\* the evaluated value cell when the evaluation succeeds and the raw cell
\* text when it fails, and a key that appears in several rows keeps the
\* value of the last of them.
C24_UpdateCollectsKeyedRows ==
    (call.fn = "onUpdate" /\ call.done) =>
        /\ ~call.out.raised
        /\ DOMAIN call.out.updatedArgs =
              {call.in[r].k.text : r \in KeyedRows(call.in)}
        /\ \A r \in KeyedRows(call.in) :
              (\A r2 \in KeyedRows(call.in) :
                  call.in[r2].k.text = call.in[r].k.text => r2 <= r)
              => call.out.updatedArgs[call.in[r].k.text] = CellValue(call.in[r].v)

\* C25: when the argument dialog is closed without pressing update, or the
\* update gives the expression the row already has, onEditTransform changes
\* nothing: the row's argument text, the status of every row and every
\* cache field are as before the edit.
C25_EditWithoutChangeIsNoOp ==
    [][(ev'.op = "edit" /\ ev'.outcome = "ok" /\ cur >= 0
          /\ rowCount(table') = rowCount(table)
          /\ table'[cur + 1].args = table[cur + 1].args)
       => (table' = table /\ ctx' = ctx)]_vars

\* the dialog of the last row left its text as it was while the cache held
\* the result of that row
C25_Witness ==
    /\ ev.op = "edit" /\ ev.outcome = "ok" /\ ev.from = -1 /\ ~ev.wasReset
    /\ cur = rowCount(table) - 1 /\ cur >= 0
    /\ ~ctx.d.none /\ table[cur + 1].done

\* C26: onEditTransform on a selected row always reaches the argument
\* dialog, whether or not the documentation page is in the temp directory:
\* a missing page is downloaded and stored there, so that after any edit the
\* stored copy exists for the edits that follow.
C26_EditReachesDialog ==
    (ev.op = "edit" /\ ev.row >= 0) => (ev.outcome = "ok" /\ docCached)

\* some expression of the sequence names EnsureChannelFirstd
NamesChannelFirst(ops) ==
    \E i \in 1..Len(ops) : Contains(ops[i], "EnsureChannelFirstd")

\* the handler call on record reset the cache: get_d in a run, onClearTransform
\* in a clear or an edit, or onBoxClicked
CacheWasReset(e) == e.wasReset \/ (e.op = "box" /\ e.outcome = "ok")

\* C27: ctx.channel is true exactly when one of the transforms applied
\* since the last reset of the cache had an expression containing
\* EnsureChannelFirstd (the transforms applied since the reset are those
\* that made ctx.d); once set it stays set until the cache is reset; and
\* get_tensor drops the leading axis of what it shows if and only if the
\* flag is set.
C27_ChannelFlag ==
    [][/\ ctx'.channel <=> (~ctx'.d.none /\ NamesChannelFirst(ctx'.d.ops))
       /\ (ctx.channel /\ ~ctx'.channel) => CacheWasReset(ev')
       /\ (ev'.op = "run" /\ ev'.outcome = "ok")
          => /\ scene'.squeezed <=> ctx'.channel
             /\ scene'.squeezed <=> NamesChannelFirst(scene'.ops)]_vars

\* a run applied EnsureChannelFirstd and then one more transform, and
\* showed the result without its leading axis
C27_Witness ==
    /\ ev.op = "run" /\ ev.outcome = "ok" /\ ev.applied = <<0, 1, 2>>
    /\ ctx.channel /\ scene.squeezed
    /\ Contains(ctx.d.ops[2], "EnsureChannelFirstd")
    /\ ~Contains(ctx.d.ops[3], "EnsureChannelFirstd")

\* C28: a dictionary preview (onShowDictionary, get_d with exp None) changes
\* no cache field and no row of the table, in any state; the run that
\* follows a preview applies the rows it would have applied without the
\* preview.
C28_PreviewChangesNothing ==
    [][ev'.op = "preview"
       => /\ ctx' = ctx
          /\ table' = table
          /\ cur' >= 0
             => \A fail \in Fails(table) :
                   RunLoop(table', ctx', cur', fail).applied
                      = RunLoop(table, ctx, cur, fail).applied]_vars

\* a preview after a successful run that left a valid cache, with a run to
\* follow
C28_Witness ==
    /\ ev.op = "preview" /\ ev.ran >= 0
    /\ valid(ctx) /\ cur >= 0 /\ btn.sel
    /\ steps < MaxSteps

\* C29: every onRunTransform and onImportBundle call that sets the wait
\* cursor restores it before it returns or lets an exception through: the
\* depth of the override-cursor stack after the call is the depth before
\* it, on success, on an early return and on failure alike.
C29_CursorRestored ==
    [][(ev'.op \in {"run", "import"}) => cursor' = cursor]_vars

\* a run set the wait cursor and a transform raised in its loop
C29_Witness ==
    /\ ev.op = "run" /\ ev.outcome = "raised" /\ ev.at = "loop"
    /\ cursor = 0

====
